---- MODULE Spec2Model ----
(***************************************************************************)
(* Model of the C code validator (validation.ts, runCode.ts, App.tsx).    *)
(*                                                                         *)
(* Text is modelled at character level: a JavaScript string is a sequence  *)
(* of one-character strings, and every regular expression of the source    *)
(* is an operator that scans that sequence the way the expression does.    *)
(***************************************************************************)
EXTENDS Integers, Sequences, FiniteSets, TLC

(***************************************************************************)
(* Bounds of the model.                                                    *)
(***************************************************************************)
\* longest runner output typed character by character
MaxOutLen == 4
\* longest expected output typed character by character
MaxExpLen == 3
\* longest text typed character by character and normalized on its own
MaxTextLen == 5
\* most fragments a typed submission is made of
MaxCodeLen == 2
\* longest token array given to the similarity scorer on its own
MaxTokens == 3

(***************************************************************************)
(* Characters.                                                             *)
(***************************************************************************)
\* what String.prototype.trim strips and what \s matches, as far as the
\* characters used in the model go
WhiteSpace == {" ", "\t", "\n", "\r", "\f"}

LowerSeq == <<"a","b","c","d","e","f","g","h","i","j","k","l","m",
              "n","o","p","q","r","s","t","u","v","w","x","y","z">>
UpperSeq == <<"A","B","C","D","E","F","G","H","I","J","K","L","M",
              "N","O","P","Q","R","S","T","U","V","W","X","Y","Z">>
Lower == {LowerSeq[i] : i \in 1..Len(LowerSeq)}
Upper == {UpperSeq[i] : i \in 1..Len(UpperSeq)}
Digit == {"0","1","2","3","4","5","6","7","8","9"}
\* [a-zA-Z_]
IdentStart == Lower \cup Upper \cup {"_"}
\* [a-zA-Z0-9_], also the word characters of \b
IdentChar == IdentStart \cup Digit
\* [+\-*\/%=<>!&|]
OperatorChar == {"+","-","*","/","%","=","<",">","!","&","|"}
\* \(|\)|\{|}|\[|]|;|,
PunctChar == {"(",")","{","}","[","]",";",","}

(***************************************************************************)
(* String primitives of the JavaScript runtime.                            *)
(***************************************************************************)
Drop(s, n) == SubSeq(s, n + 1, Len(s))

Take(s, n) == SubSeq(s, 1, IF n < Len(s) THEN n ELSE Len(s))

\* s.startsWith(p, i) with 1-based i
StartsAt(s, i, p) ==
    /\ i >= 1
    /\ i + Len(p) - 1 <= Len(s)
    /\ \A k \in 1..Len(p) : s[i + k - 1] = p[k]

\* String.prototype.trim
RECURSIVE TrimStart(_)
TrimStart(s) ==
    IF s # <<>> /\ s[1] \in WhiteSpace THEN TrimStart(Tail(s)) ELSE s

RECURSIVE TrimEnd(_)
TrimEnd(s) ==
    IF s # <<>> /\ s[Len(s)] \in WhiteSpace
    THEN TrimEnd(SubSeq(s, 1, Len(s) - 1)) ELSE s

Trim(s) == TrimEnd(TrimStart(s))

\* s.split('\n'): always at least one piece
RECURSIVE SplitLines(_)
SplitLines(s) ==
    IF \E i \in 1..Len(s) : s[i] = "\n"
    THEN LET i == CHOOSE j \in 1..Len(s) :
                    s[j] = "\n" /\ \A k \in 1..(j - 1) : s[k] # "\n"
         IN  <<SubSeq(s, 1, i - 1)>> \o SplitLines(Drop(s, i))
    ELSE <<s>>

\* lines.join('\n')
RECURSIVE JoinLines(_)
JoinLines(ls) ==
    IF ls = <<>> THEN <<>>
    ELSE IF Len(ls) = 1 THEN ls[1]
    ELSE ls[1] \o <<"\n">> \o JoinLines(Tail(ls))

(***************************************************************************)
(* runCode.ts: normalizeOutput and outputsMatch.                           *)
(***************************************************************************)
\* .replace(/\r\n/g, '\n')
RECURSIVE ReplaceCRLF(_)
ReplaceCRLF(s) ==
    IF s = <<>> THEN <<>>
    ELSE IF StartsAt(s, 1, <<"\r", "\n">>)
    THEN <<"\n">> \o ReplaceCRLF(Drop(s, 2))
    ELSE <<s[1]>> \o ReplaceCRLF(Tail(s))

\* .replace(/\r/g, '\n')
ReplaceCR(s) == [i \in 1..Len(s) |-> IF s[i] = "\r" THEN "\n" ELSE s[i]]

\* .replace(/[ \t]+/g, ' ')
RECURSIVE SkipBlanks(_)
SkipBlanks(s) ==
    IF s # <<>> /\ s[1] \in {" ", "\t"} THEN SkipBlanks(Tail(s)) ELSE s

\* a variant that replaces each pair of blanks, not each run
RECURSIVE CollapseBlanks_Pairs(_)
CollapseBlanks_Pairs(s) ==
    IF s = <<>> THEN <<>>
    ELSE IF Len(s) >= 2 /\ s[1] \in {" ", "\t"} /\ s[2] \in {" ", "\t"}
    THEN <<" ">> \o CollapseBlanks_Pairs(Drop(s, 2))
    ELSE <<s[1]>> \o CollapseBlanks_Pairs(Tail(s))

RECURSIVE CollapseBlanks(_)
CollapseBlanks(s) ==
    IF s = <<>> THEN <<>>
    ELSE IF s[1] \in {" ", "\t"}
    THEN <<" ">> \o CollapseBlanks(SkipBlanks(s))
    ELSE <<s[1]>> \o CollapseBlanks(Tail(s))

\* a variant that strips only the end of each line
TrimEachLine_TrailingOnly(ls) == [i \in 1..Len(ls) |-> TrimEnd(ls[i])]

\* .map((l) => l.trim())
TrimEachLine(ls) == [i \in 1..Len(ls) |-> Trim(ls[i])]

normalizeOutput(s) ==
    Trim(JoinLines(TrimEachLine(SplitLines(
        CollapseBlanks(ReplaceCR(ReplaceCRLF(s)))))))

outputsMatch(actual, expected) ==
    normalizeOutput(actual) = normalizeOutput(expected)

(***************************************************************************)
(* validation.ts: normalizeCode and getTokens.                             *)
(***************************************************************************)
\* index of the first occurrence of p in s at or after i, 0 when there is none
FirstAt(s, i, p) ==
    IF \E j \in i..Len(s) : StartsAt(s, j, p)
    THEN CHOOSE j \in i..Len(s) :
            StartsAt(s, j, p) /\ \A k \in i..(j - 1) : ~StartsAt(s, k, p)
    ELSE 0

\* number of leading characters of s that lie in set
RECURSIVE SpanLen(_, _)
SpanLen(s, set) ==
    IF s # <<>> /\ s[1] \in set THEN 1 + SpanLen(Tail(s), set) ELSE 0

\* s.replace(/\/\/[^\n]*/g, '')
RECURSIVE RemoveLineComments(_)
RemoveLineComments(s) ==
    IF s = <<>> THEN <<>>
    ELSE IF StartsAt(s, 1, <<"/", "/">>)
    THEN LET nl == FirstAt(s, 3, <<"\n">>)
         IN  IF nl = 0 THEN <<>> ELSE RemoveLineComments(Drop(s, nl - 1))
    ELSE <<s[1]>> \o RemoveLineComments(Tail(s))

\* s.replace(/\/\*[\s\S]*?\*\//g, '')
RECURSIVE RemoveBlockComments(_)
RemoveBlockComments(s) ==
    IF s = <<>> THEN <<>>
    ELSE IF StartsAt(s, 1, <<"/", "*">>) /\ FirstAt(s, 3, <<"*", "/">>) # 0
    THEN RemoveBlockComments(Drop(s, FirstAt(s, 3, <<"*", "/">>) + 1))
    ELSE <<s[1]>> \o RemoveBlockComments(Tail(s))

\* s.replace(/\s+/g, ' ')
RECURSIVE CollapseSpace(_)
CollapseSpace(s) ==
    IF s = <<>> THEN <<>>
    ELSE IF s[1] \in WhiteSpace
    THEN <<" ">> \o CollapseSpace(Drop(s, SpanLen(s, WhiteSpace)))
    ELSE <<s[1]>> \o CollapseSpace(Tail(s))

normalizeCode(code) ==
    Trim(CollapseSpace(RemoveBlockComments(RemoveLineComments(code))))

\* the scanning loop of getTokens over the normalized text: at each position
\* the first alternative of the expression that matches wins, greedily, and
\* a character no alternative matches is skipped
RECURSIVE ScanTokens(_)
ScanTokens(s) ==
    IF s = <<>> THEN <<>>
    ELSE LET n == IF s[1] \in IdentStart THEN SpanLen(s, IdentChar)
                  ELSE IF s[1] \in Digit THEN SpanLen(s, Digit)
                  ELSE IF s[1] \in OperatorChar THEN SpanLen(s, OperatorChar)
                  ELSE IF s[1] \in PunctChar THEN 1
                  ELSE 0
         IN  IF n = 0 THEN ScanTokens(Tail(s))
             ELSE <<SubSeq(s, 1, n)>> \o ScanTokens(Drop(s, n))

getTokens(code) == ScanTokens(normalizeCode(code))

(***************************************************************************)
(* validation.ts: tokenSimilarity.                                         *)
(***************************************************************************)
\* String.prototype.toLowerCase on the characters of the model
LowerChar(c) ==
    IF c \in Upper
    THEN LowerSeq[CHOOSE i \in 1..Len(UpperSeq) : UpperSeq[i] = c]
    ELSE c

toLowerCase(t) == [i \in 1..Len(t) |-> LowerChar(t[i])]

\* new Set(a.map((t) => t.toLowerCase()))
LowerSet(a) == {toLowerCase(a[i]) : i \in 1..Len(a)}

\* a variant that counts every occurrence of a token in the union
tokenSimilarity_Occurrences(a, b) ==
    IF Len(a) = 0 /\ Len(b) = 0 THEN [num |-> 1, den |-> 1]
    ELSE IF Len(a) = 0 \/ Len(b) = 0 THEN [num |-> 0, den |-> 1]
    ELSE LET match == Cardinality(LowerSet(a) \cap LowerSet(b))
         IN  [num |-> match, den |-> Len(a) + Len(b) - match]

\* a variant whose sets hold the tokens as written, case kept
tokenSimilarity_CaseSensitive(a, b) ==
    IF Len(a) = 0 /\ Len(b) = 0 THEN [num |-> 1, den |-> 1]
    ELSE IF Len(a) = 0 \/ Len(b) = 0 THEN [num |-> 0, den |-> 1]
    ELSE LET setA == {a[i] : i \in 1..Len(a)}
             setB == {b[i] : i \in 1..Len(b)}
         IN  [num |-> Cardinality(setA \cap setB),
              den |-> Cardinality(setA \cup setB)]

\* The quotient match / union.size is kept exact, as the pair of its
\* numerator and denominator.
tokenSimilarity(a, b) ==
    IF Len(a) = 0 /\ Len(b) = 0 THEN [num |-> 1, den |-> 1]
    ELSE IF Len(a) = 0 \/ Len(b) = 0 THEN [num |-> 0, den |-> 1]
    ELSE LET setA == LowerSet(a)
             setB == LowerSet(b)
             match == Cardinality({t \in setA : t \in setB})
             union == setA \cup setB
         IN  [num |-> match, den |-> Cardinality(union)]

(***************************************************************************)
(* validation.ts: checkStructure.                                          *)
(***************************************************************************)
\* position after \s* from position i
RECURSIVE SkipSpaceFrom(_, _)
SkipSpaceFrom(s, i) ==
    IF i <= Len(s) /\ s[i] \in WhiteSpace THEN SkipSpaceFrom(s, i + 1) ELSE i

\* /\bword\s*\(/.test(s)
HasCall(s, word) ==
    \E i \in 1..Len(s) :
        /\ StartsAt(s, i, word)
        /\ (i = 1 \/ s[i - 1] \notin IdentChar)
        /\ StartsAt(s, SkipSpaceFrom(s, i + Len(word)), <<"(">>)

\* /#\s*include\s*[<"]stdio\.h[>"]/.test(s)
HasStdioInclude(s) ==
    \E i \in 1..Len(s) :
        /\ s[i] = "#"
        /\ LET j == SkipSpaceFrom(s, i + 1)
               k == SkipSpaceFrom(s, j + 7)
           IN  /\ StartsAt(s, j, <<"i","n","c","l","u","d","e">>)
               /\ k <= Len(s) /\ s[k] \in {"<", "\""}
               /\ StartsAt(s, k + 1, <<"s","t","d","i","o",".","h">>)
               /\ k + 8 <= Len(s) /\ s[k + 8] \in {">", "\""}

\* (s.match(/c/g) || []).length for a single character c
CountChar(s, c) == Cardinality({i \in 1..Len(s) : s[i] = c})

\* /%\s*2/.test(s)
HasModTwo(s) ==
    \E i \in 1..Len(s) :
        s[i] = "%" /\ StartsAt(s, SkipSpaceFrom(s, i + 1), <<"2">>)

\* /%/.test(s)
HasPercent(s) == \E i \in 1..Len(s) : s[i] = "%"

W_main == <<"m","a","i","n">>
W_printf == <<"p","r","i","n","t","f">>
W_scanf == <<"s","c","a","n","f">>
W_fgets == <<"f","g","e","t","s">>
W_gets == <<"g","e","t","s">>
W_switch == <<"s","w","i","t","c","h">>

\* An entry of a mistakes list: a fixed text, followed by the interpolated
\* text when the entry is built from a template.
Plain(text) == [text |-> text, arg |-> <<>>]
Templ(text, arg) == [text |-> text, arg |-> arg]

\* a variant that charges no rule more than 15 points
Rule_Capped(violated, text, weight) ==
    IF violated
    THEN [mistakes |-> <<Plain(text)>>,
          penalties |-> IF weight > 15 THEN 15 ELSE weight]
    ELSE [mistakes |-> <<>>, penalties |-> 0]

\* one rule of checkStructure: mistakes.push(text); penalties += weight
Rule(violated, text, weight) ==
    IF violated THEN [mistakes |-> <<Plain(text)>>, penalties |-> weight]
    ELSE [mistakes |-> <<>>, penalties |-> 0]

checkStructure(userCode, refCode) ==
    LET usesIO == \/ HasCall(refCode, W_printf)
                  \/ HasCall(refCode, W_scanf)
                  \/ HasCall(refCode, W_fgets)
        hasInclude == HasStdioInclude(userCode)
        openB == CountChar(userCode, "{")
        closeB == CountChar(userCode, "}")
        r1 == Rule(~HasCall(userCode, W_main), "Missing main() function", 25)
        r2 == Rule(usesIO /\ ~hasInclude, "Missing #include <stdio.h>", 15)
        r3 == Rule(openB # closeB, "Unbalanced braces", 20)
        r4 == Rule(HasCall(refCode, W_switch) /\ ~HasCall(userCode, W_switch),
                   "Problem requires switch statement", 15)
        r5 == Rule(HasModTwo(refCode) /\ ~HasPercent(userCode),
                   "Use modulo operator (%) for even/odd check", 10)
        r6 == Rule(HasCall(refCode, W_fgets) /\ HasCall(userCode, W_gets),
                   "Use fgets() instead of gets()", 10)
    IN  [mistakes |-> r1.mistakes \o r2.mistakes \o r3.mistakes
                      \o r4.mistakes \o r5.mistakes \o r6.mistakes,
         penalties |-> r1.penalties + r2.penalties + r3.penalties
                       + r4.penalties + r5.penalties + r6.penalties]

(***************************************************************************)
(* validation.ts: compareToReference.                                      *)
(***************************************************************************)
\* an absent optional field, and a present one
Undefined == <<>>
Some(x) == <<x>>

\* a variant that drops the fraction instead of rounding
RoundTimes60_Truncated(sim) == (60 * sim.num) \div sim.den

\* Math.round(sim * 60): the nearest integer, a half rounded up
RoundTimes60(sim) == (120 * sim.num + sim.den) \div (2 * sim.den)

Max(a, b) == IF a >= b THEN a ELSE b
Min(a, b) == IF a <= b THEN a ELSE b

\* a variant without the floor of the structural term
ComposeScore_NoFloor(tokenSim, penalties) ==
    Min(100, RoundTimes60(tokenSim) + (40 - penalties))

\* score = Math.round(tokenSim * 60); score += Math.max(0, 40 - penalties);
\* score = Math.min(100, score)
ComposeScore(tokenSim, penalties) ==
    Min(100, RoundTimes60(tokenSim) + Max(0, 40 - penalties))

\* the summary banding of compareToReference
ReferenceSummary(score) ==
    IF score >= 80 THEN "Your solution closely matches the reference."
    ELSE IF score >= 50
    THEN "Your solution has some differences from the expected approach."
    ELSE "Significant differences from the reference solution. Review the issues."

\* a variant without the final fallback
FinalMistakes_NoFallback(tokenSim, score, structural) ==
    LET m1 == IF 10 * tokenSim.num < 3 * tokenSim.den /\ Len(structural) = 0
              THEN structural \o
                   <<Plain("Solution structure differs significantly from expected approach")>>
              ELSE structural
    IN  IF score >= 90 /\ Len(m1) = 0
        THEN m1 \o <<Plain("No major issues - good match!")>>
        ELSE m1

\* the two conditional pushes onto allMistakes and the final fallback
FinalMistakes(tokenSim, score, structural) ==
    LET m1 == IF 10 * tokenSim.num < 3 * tokenSim.den /\ Len(structural) = 0
              THEN structural \o
                   <<Plain("Solution structure differs significantly from expected approach")>>
              ELSE structural
        m2 == IF score >= 90 /\ Len(m1) = 0
              THEN m1 \o <<Plain("No major issues - good match!")>>
              ELSE m1
    IN  IF Len(m2) # 0 THEN m2
        ELSE <<Plain("Review your implementation for minor improvements")>>

\* A ValidationResult without the optional output fields.  The field
\* computed is not part of the ValidationResult: it keeps the locals tokenSim
\* and structureCheck of the compareToReference call that made the result,
\* and is absent when no call got as far as computing them.
Result(score, mistakes, summary, matchedProblem) ==
    [score |-> score,
     mistakes |-> mistakes,
     summary |-> summary,
     matchedProblem |-> matchedProblem,
     userOutput |-> Undefined,
     expectedOutput |-> Undefined,
     outputMatched |-> Undefined,
     computed |-> Undefined]

\* a variant that looks at the text as typed, comments included
HasCode_Untouched(userCode) == Trim(userCode) # <<>>

\* whether compareToReference gets past its early return for this text
HasCode(userCode) == normalizeCode(userCode) # <<>>

compareToReference(userCode, refCode) ==
    IF ~HasCode(userCode)
    THEN Result(0, <<Plain("No code provided")>>,
                "Please write your C solution.", Undefined)
    ELSE LET tokenSim == tokenSimilarity(getTokens(userCode), getTokens(refCode))
             structureCheck == checkStructure(userCode, refCode)
             score == ComposeScore(tokenSim, structureCheck.penalties)
         IN  [Result(score,
                     FinalMistakes(tokenSim, score, structureCheck.mistakes),
                     ReferenceSummary(score), Undefined)
              EXCEPT !.computed = Some([tokenSim |-> tokenSim,
                                        structureCheck |-> structureCheck])]

(***************************************************************************)
(* The Problem Store (problems.ts): the seeded bank and the lookup.        *)
(***************************************************************************)
\* #include <stdio.h>\nint main(){printf("\\n");}
Sol_EmptyLine ==
    <<"#","i","n","c","l","u","d","e"," ","<","s","t","d","i","o",".","h",
      ">","\n","i","n","t"," ","m","a","i","n","(",")","{","p","r",
      "i","n","t","f","(","\"","\\","n","\"",")",";","}">>
\* #include <stdio.h>\nint main(){printf("7\\n");}
Sol_Seven ==
    <<"#","i","n","c","l","u","d","e"," ","<","s","t","d","i","o",".","h",
      ">","\n","i","n","t"," ","m","a","i","n","(",")","{","p","r",
      "i","n","t","f","(","\"","7","\\","n","\"",")",";","}">>
\* #include <stdio.h>\nint main(){fgets(b,9,stdin);switch(x%2){}}
Sol_Parity ==
    <<"#","i","n","c","l","u","d","e"," ","<","s","t","d","i","o",".","h",
      ">","\n","i","n","t"," ","m","a","i","n","(",")","{","f","g",
      "e","t","s","(","b",",","9",",","s","t","d","i","n",")",";","s",
      "w","i","t","c","h","(","x","%","2",")","{","}","}">>
\* #include <stdio.h>\nint main(){printf("{");}
Sol_Brace ==
    <<"#","i","n","c","l","u","d","e"," ","<","s","t","d","i","o",".","h",
      ">","\n","i","n","t"," ","m","a","i","n","(",")","{","p","r",
      "i","n","t","f","(","\"","{","\"",")",";","}">>
\* int main(){return 0;}
Sol_Nothing ==
    <<"i","n","t"," ","m","a","i","n","(",")","{","r","e","t","u","r","n",
      " ","0",";","}">>

\* ProblemEntry & { stdin?, expectedOutput? }
SeedProblems ==
    <<[problem |-> "Print an empty line", solution |-> Sol_EmptyLine,
       stdin |-> Undefined, expectedOutput |-> Some(<<"\n">>)],
      [problem |-> "Print 7", solution |-> Sol_Seven,
       stdin |-> Some(<<>>), expectedOutput |-> Some(<<"7", "\n">>)],
      [problem |-> "Even or odd", solution |-> Sol_Parity,
       stdin |-> Some(<<"4", "\n">>), expectedOutput |-> Undefined],
      [problem |-> "Print an opening brace", solution |-> Sol_Brace,
       stdin |-> Undefined, expectedOutput |-> Some(<<>>)],
      [problem |-> "Do nothing", solution |-> Sol_Nothing,
       stdin |-> Undefined, expectedOutput |-> Undefined]>>

\* seedProblemsIfNeeded: fills an empty store with the bank
seedProblemsIfNeeded(store) == IF store = <<>> THEN SeedProblems ELSE store

\* getStoredProblems: the records of the store
getStoredProblems(store) == store

\* findMatchingProblem: the record whose problem text is the text given,
\* null when there is none
findMatchingProblem(text, problems) ==
    IF \E i \in 1..Len(problems) : problems[i].problem = text
    THEN Some(problems[CHOOSE i \in 1..Len(problems) :
                            problems[i].problem = text])
    ELSE Undefined

\* what a failing store throws: an Error with its message, or a value that
\* is no Error
StoreFaults ==
    {[isError |-> TRUE, message |-> "The operation is insecure."],
     [isError |-> FALSE, message |-> ""]}

\* the problem texts a user enters
ProblemTexts ==
    {SeedProblems[i].problem : i \in 1..Len(SeedProblems)}
        \cup {"Reverse a string"}

(***************************************************************************)
(* The editor: what a user submits.                                        *)
(***************************************************************************)
\*  \n
Frag_Blank ==
    <<" ","\n">>
\* /*c*/
Frag_Comment ==
    <<"/","*","c","*","/">>
\* int main(){}
Frag_Main ==
    <<"i","n","t"," ","m","a","i","n","(",")","{","}">>
\* {
Frag_Open ==
    <<"{">>
\* #include <stdio.h>\n
Frag_Include ==
    <<"#","i","n","c","l","u","d","e"," ","<","s","t","d","i","o",".","h",
      ">","\n">>
\* switch(x%2){}
Frag_Switch ==
    <<"s","w","i","t","c","h","(","x","%","2",")","{","}">>
\* gets(b);
Frag_Gets ==
    <<"g","e","t","s","(","b",")",";">>
\* INT X;
Frag_Upper ==
    <<"I","N","T"," ","X",";">>

CodeFragments ==
    {Frag_Blank, Frag_Comment, Frag_Main, Frag_Open, Frag_Include,
     Frag_Switch, Frag_Gets, Frag_Upper}

\* the texts made of at most n fragments
RECURSIVE TypedCode(_)
TypedCode(n) ==
    IF n = 0 THEN {<<>>}
    ELSE LET shorter == TypedCode(n - 1)
         IN  shorter \cup {s \o f : s \in shorter, f \in CodeFragments}

\* a submission is typed from fragments, or is a pasted reference solution
Submissions ==
    TypedCode(MaxCodeLen)
        \cup {SeedProblems[i].solution : i \in 1..Len(SeedProblems)}

(***************************************************************************)
(* runCode.ts: runCCode.                                                   *)
(***************************************************************************)
DigitSeq == <<"0","1","2","3","4","5","6","7","8","9">>

\* the decimal text of an integer, as a template literal prints it
RECURSIVE NaturalText(_)
NaturalText(n) ==
    IF n < 10 THEN <<DigitSeq[n + 1]>>
    ELSE NaturalText(n \div 10) \o <<DigitSeq[(n % 10) + 1]>>

DecimalText(n) == IF n < 0 THEN <<"-">> \o NaturalText(0 - n) ELSE NaturalText(n)

\* `Exit code: ${exitCode}`
ExitCodeText(exitCode) ==
    <<"E","x","i","t"," ","c","o","d","e",":"," ">> \o DecimalText(exitCode)

RunResult(success, stdout, stderr, error) ==
    [success |-> success, stdout |-> stdout, stderr |-> stderr, error |-> error]

\* x ?? d for an optional x
OrElse(x, d) == IF x = Undefined THEN d ELSE x[1]

\* What the request to the runner comes to: the fetch or the reading of its
\* body rejects, the response is not ok, or the body is the runner's JSON.
\* runCCode turns each into a RunResult and never rejects itself.
runCCode(outcome) ==
    IF outcome.kind = "reject"
    THEN RunResult(FALSE, <<>>, <<>>,
                   Some(Plain(IF outcome.isError THEN outcome.message
                              ELSE "Failed to run code")))
    ELSE IF outcome.kind = "http"
    THEN RunResult(FALSE, <<>>, <<>>,
                   Some(Templ("API error: ", DecimalText(outcome.status))))
    ELSE IF outcome.message # Undefined /\ outcome.message[1] # <<>>
    THEN RunResult(FALSE, <<>>, outcome.message[1],
                   Some(Templ("", outcome.message[1])))
    ELSE LET run == outcome.run
             stdout == IF run = Undefined THEN <<>> ELSE OrElse(run[1].stdout, <<>>)
             stderr == IF run = Undefined THEN <<>> ELSE OrElse(run[1].stderr, <<>>)
             exitCode == IF run = Undefined THEN -1 ELSE OrElse(run[1].code, -1)
         IN  RunResult(exitCode = 0, stdout,
                       IF stderr # <<>> THEN stderr
                       ELSE IF exitCode # 0 THEN ExitCodeText(exitCode)
                       ELSE <<>>,
                       Undefined)

\* the program outputs, diagnostics and exit codes the runner reports
Stdouts == {<<>>, <<"7", "\r", "\n", " ">>, <<"8">>}
Stderrs == {<<>>, <<"a", "\n", "b", "\n", "c", "\n", "d">>}
ExitCodes == {0, 1}

RunBodies ==
    [stdout : {Some(o) : o \in Stdouts} \cup {Undefined},
     stderr : {Some(e) : e \in Stderrs} \cup {Undefined},
     code : {Some(c) : c \in ExitCodes} \cup {Undefined}]

FetchOutcomes ==
    {[kind |-> "reject", isError |-> TRUE, message |-> "Failed to fetch"],
     [kind |-> "reject", isError |-> FALSE, message |-> ""]}
    \cup {[kind |-> "http", status |-> st] : st \in {429, 500}}
    \cup {[kind |-> "json", message |-> Some(<<"c","-","9"," ","r","u","n","t","i","m","e"," ","i","s"," ","u","n","k","n","o","w","n">>),
           run |-> Undefined]}
    \cup {[kind |-> "json", message |-> Undefined, run |-> Undefined]}
    \cup {[kind |-> "json", message |-> Undefined, run |-> Some(b)] :
            b \in RunBodies}

(***************************************************************************)
(* validation.ts: validateCCode.                                           *)
(***************************************************************************)
\* lines of the diagnostic kept in the mistakes list
DiagnosticLines == 3
\* characters of an output kept in the mistakes list
ExcerptChars == 200

\* a variant without the test for the empty string
hasOutputCheck_NullOnly(entry) == entry.expectedOutput # Undefined

\* entry.expectedOutput != null && entry.expectedOutput !== ''
hasOutputCheck(entry) ==
    entry.expectedOutput # Undefined /\ entry.expectedOutput[1] # <<>>

UnmatchedResult ==
    Result(0,
           <<Plain("No matching problem found in the database."),
             Plain("Paste the exact problem text from the list.")>>,
           "Could not find this problem. Use the exact problem description.",
           Undefined)

\* runResult.stderr.split('\n').slice(0, 3).join('\n')
DiagnosticExcerpt(stderr) == JoinLines(Take(SplitLines(stderr), DiagnosticLines))

ExecutionFailedResult(entry, runResult) ==
    [Result(0,
            <<Plain("Code failed to compile or run."),
              Templ("", DiagnosticExcerpt(runResult.stderr))>>,
            "Fix compilation/runtime errors first.",
            Some(entry.problem))
     EXCEPT !.userOutput = IF runResult.stdout # <<>>
                           THEN Some(runResult.stdout) ELSE Undefined,
            !.expectedOutput = entry.expectedOutput,
            !.outputMatched = Some(FALSE)]

\* `${normalizeOutput(out).slice(0, 200)}${out.length > 200 ? '...' : ''}`
OutputExcerpt(out) ==
    Take(normalizeOutput(out), ExcerptChars)
        \o (IF Len(out) > ExcerptChars THEN <<".", ".", ".">> ELSE <<>>)

WrongAnswerResult(entry, runResult) ==
    [Result(0,
            <<Plain("Wrong answer. Output does not match the expected result."),
              Templ("Your output: ", OutputExcerpt(runResult.stdout)),
              Templ("Expected: ", OutputExcerpt(entry.expectedOutput[1]))>>,
            "Answer is incorrect. Fix your output first, then validate again.",
            Some(entry.problem))
     EXCEPT !.userOutput = Some(runResult.stdout),
            !.expectedOutput = entry.expectedOutput,
            !.outputMatched = Some(FALSE)]

\* the summary banding of the step after a correct answer
CorrectSummary(score) ==
    IF score >= 80
    THEN "Answer correct. Code structure and logic closely match the reference."
    ELSE IF score >= 50
    THEN "Answer correct. Code has some differences from the reference approach."
    ELSE "Answer correct. Consider improving code structure and logic."

\* a variant that rewards a right answer with ten points
OutputMatchedResult_Bonus(entry, code, runResult) ==
    LET result == compareToReference(code, entry.solution)
    IN  [result EXCEPT !.score = Min(100, result.score + 10),
                       !.matchedProblem = Some(entry.problem),
                       !.userOutput = Some(runResult.stdout),
                       !.expectedOutput = entry.expectedOutput,
                       !.outputMatched = Some(TRUE),
                       !.summary = CorrectSummary(result.score)]

OutputMatchedResult(entry, code, runResult) ==
    LET result == compareToReference(code, entry.solution)
    IN  [result EXCEPT !.matchedProblem = Some(entry.problem),
                       !.userOutput = Some(runResult.stdout),
                       !.expectedOutput = entry.expectedOutput,
                       !.outputMatched = Some(TRUE),
                       !.summary = CorrectSummary(result.score)]

\* a variant that returns what compareToReference returned, untouched
NoOutputCheckResult_KeepsNull(entry, code) ==
    compareToReference(code, entry.solution)

NoOutputCheckResult(entry, code) ==
    [compareToReference(code, entry.solution)
     EXCEPT !.matchedProblem = Some(entry.problem)]

\* which of the three branches after the await is taken
RunVerdict(entry, runResult) ==
    IF ~runResult.success /\ runResult.stderr # <<>> THEN "failed"
    ELSE IF ~outputsMatch(runResult.stdout, entry.expectedOutput[1]) THEN "wrong"
    ELSE "matched"

\* a variant that scores a wrong answer like a right one
AfterRun_ScoresWrongAnswer(entry, submitted, runResult) ==
    LET verdict == RunVerdict(entry, runResult)
    IN  IF verdict = "failed" THEN ExecutionFailedResult(entry, runResult)
        ELSE IF verdict = "wrong"
        THEN [WrongAnswerResult(entry, runResult)
              EXCEPT !.score = compareToReference(submitted, entry.solution).score]
        ELSE OutputMatchedResult(entry, submitted, runResult)

\* validateCCode from the line after the await to its return
AfterRun(entry, code, runResult) ==
    LET verdict == RunVerdict(entry, runResult)
    IN  IF verdict = "failed" THEN ExecutionFailedResult(entry, runResult)
        ELSE IF verdict = "wrong" THEN WrongAnswerResult(entry, runResult)
        ELSE OutputMatchedResult(entry, code, runResult)

(***************************************************************************)
(* App.tsx: handleValidate.                                                *)
(***************************************************************************)
\* a variant that shows the same text for every fault
FaultResult_NoMessage(err) ==
    Result(0, <<Plain("Validation failed")>>,
           "An error occurred during validation.", Undefined)

\* the result the catch clause of handleValidate shows
FaultResult(err) ==
    Result(0,
           <<Plain(IF err.isError THEN err.message ELSE "Validation failed")>>,
           "An error occurred during validation.",
           Undefined)

(***************************************************************************)
(* State.                                                                  *)
(***************************************************************************)
VARIABLES
    stored,        \* the Problem Store's records
    pc,            \* "idle", "awaiting" (validateCCode suspended at its await), "done"
    problem,       \* the problem text of the grading call
    code,          \* the submission of the grading call
    entry,         \* validateCCode's matched record
    runResult,     \* what runCCode resolved to in this grading call
    validation,    \* App state: the ValidationResult shown
    isValidating,  \* App state: the Validate button is disabled
    thrown,        \* what validateCCode's promise rejected with
    calls,         \* calls this grading call made: runCCode, compareToReference,
                   \* and tokenSimilarity with checkStructure
    actual,        \* output comparator: the program output given to outputsMatch
    expected,      \* output comparator: the expected output given to outputsMatch
    compared,      \* output comparator: what the last comparison computed
    tokensA,       \* similarity scorer: the first token array given to tokenSimilarity
    tokensB,       \* similarity scorer: the second token array
    similarity,    \* similarity scorer: what tokenSimilarity returned
    userText,      \* structural checker: the submission given to checkStructure
    refText,       \* structural checker: the reference given to checkStructure
    structure      \* structural checker: what checkStructure returned

appVars == <<stored, pc, problem, code, entry, runResult, validation,
             isValidating, thrown, calls>>
outVars == <<actual, expected, compared>>
simVars == <<tokensA, tokensB, similarity>>
structVars == <<userText, refText, structure>>
vars == <<stored, pc, problem, code, entry, runResult, validation,
          isValidating, thrown, calls, actual, expected, compared,
          tokensA, tokensB, similarity, userText, refText, structure>>

NoCalls == [run |-> 0, compare |-> 0, structure |-> 0]

\* the calls one compareToReference made, given the result it returned
AfterCompare(c, result) ==
    [c EXCEPT !.compare = @ + 1,
              !.structure = @ + (IF result.computed # Undefined THEN 1 ELSE 0)]

\* everything but the store, as a page load leaves it
Fresh ==
    /\ pc = "idle"
    /\ problem = ""
    /\ code = <<>>
    /\ entry = Undefined
    /\ runResult = Undefined
    /\ validation = Undefined
    /\ isValidating = FALSE
    /\ thrown = Undefined
    /\ calls = NoCalls
    /\ actual = <<>>
    /\ expected = <<>>
    /\ compared = Undefined
    /\ tokensA = <<>>
    /\ tokensB = <<>>
    /\ similarity = Undefined
    /\ userText = <<>>
    /\ refText = <<>>
    /\ structure = Undefined

\* The store is empty on a first visit and holds the bank on a later one.
Init ==
    /\ stored \in {<<>>, SeedProblems}
    /\ Fresh

(***************************************************************************)
(* A grading call: handleValidate running validateCCode.                   *)
(***************************************************************************)
\* the texts of the problem field and of the editor are handed to
\* validateCCode
Begin(p, c) ==
    /\ problem' = p
    /\ code' = c
    /\ runResult' = Undefined

\* the lookup at the head of validateCCode
Lookup(store, p) ==
    findMatchingProblem(p, getStoredProblems(seedProblemsIfNeeded(store)))

\* the call settles: setValidation(result), setIsValidating(false)
Settle(result) ==
    /\ validation' = Some(result)
    /\ isValidating' = FALSE
    /\ pc' = "done"

\* the store throws: validateCCode rejects, the catch clause shows the fault
ValidateStoreFault(p, c, err) ==
    /\ Begin(p, c)
    /\ thrown' = Some(err)
    /\ entry' = Undefined
    /\ calls' = NoCalls
    /\ Settle(FaultResult(err))
    /\ UNCHANGED <<stored, outVars, simVars, structVars>>

\* no record matches
ValidateUnmatched(p, c) ==
    /\ Begin(p, c)
    /\ Lookup(stored, p) = Undefined
    /\ stored' = seedProblemsIfNeeded(stored)
    /\ thrown' = Undefined
    /\ entry' = Undefined
    /\ calls' = NoCalls
    /\ Settle(UnmatchedResult)
    /\ UNCHANGED <<outVars, simVars, structVars>>

\* a record without an expected output matches
ValidateNoOutputCheck(p, c) ==
    /\ Begin(p, c)
    /\ Lookup(stored, p) # Undefined
    /\ ~hasOutputCheck(Lookup(stored, p)[1])
    /\ stored' = seedProblemsIfNeeded(stored)
    /\ thrown' = Undefined
    /\ entry' = Lookup(stored, p)
    /\ LET result == NoOutputCheckResult(Lookup(stored, p)[1], c)
       IN  /\ calls' = AfterCompare(NoCalls, result)
           /\ Settle(result)
    /\ UNCHANGED <<outVars, simVars, structVars>>

\* a record with an expected output matches: runCCode is called and
\* validateCCode suspends
ValidateDispatch(p, c) ==
    /\ Begin(p, c)
    /\ Lookup(stored, p) # Undefined
    /\ hasOutputCheck(Lookup(stored, p)[1])
    /\ stored' = seedProblemsIfNeeded(stored)
    /\ thrown' = Undefined
    /\ entry' = Lookup(stored, p)
    /\ calls' = [NoCalls EXCEPT !.run = 1]
    /\ validation' = Undefined
    /\ isValidating' = TRUE
    /\ pc' = "awaiting"
    /\ UNCHANGED <<outVars, simVars, structVars>>

\* runCCode resolves and validateCCode runs to its return
RunSettles(outcome) ==
    /\ pc = "awaiting"
    /\ LET r == runCCode(outcome)
           result == AfterRun(entry[1], code, r)
       IN  /\ runResult' = Some(r)
           /\ calls' = IF RunVerdict(entry[1], r) = "matched"
                       THEN AfterCompare(calls, result) ELSE calls
           /\ Settle(result)
    /\ UNCHANGED <<stored, problem, code, entry, thrown, outVars, simVars,
                 structVars>>

\* The Validate button is pressed.  The button is disabled while a call is
\* in flight.  A behaviour follows one grading call: validateCCode reads
\* nothing an earlier call wrote but the store, and both states of the store
\* are initial.
HandleValidate ==
    /\ pc = "idle"
    /\ ~isValidating
    /\ \E p \in ProblemTexts, c \in Submissions :
          \/ \E err \in StoreFaults : ValidateStoreFault(p, c, err)
          \/ ValidateUnmatched(p, c)
          \/ ValidateNoOutputCheck(p, c)
          \/ ValidateDispatch(p, c)

Next ==
    \/ HandleValidate
    \/ \E outcome \in FetchOutcomes : RunSettles(outcome)

Spec == Init /\ [][Next]_vars

(***************************************************************************)
(* The output comparator on its own: outputs are typed character by        *)
(* character and compared.                                                 *)
(***************************************************************************)
\* the characters of a program output
OutChars == {"a", "b", " ", "\t", "\n", "\r"}
\* the characters of an expected output
ExpChars == {"a", " ", "\n"}

TypeActual(ch) ==
    /\ compared = Undefined
    /\ Len(actual) < MaxOutLen
    /\ actual' = Append(actual, ch)
    /\ UNCHANGED <<expected, compared, appVars, simVars, structVars>>

TypeExpected(ch) ==
    /\ compared = Undefined
    /\ Len(expected) < MaxExpLen
    /\ expected' = Append(expected, ch)
    /\ UNCHANGED <<actual, compared, appVars, simVars, structVars>>

Compare ==
    /\ compared = Undefined
    /\ compared' = Some([normalized |-> normalizeOutput(actual),
                         again |-> normalizeOutput(normalizeOutput(actual)),
                         matched |-> outputsMatch(actual, expected)])
    /\ UNCHANGED <<actual, expected, appVars, simVars, structVars>>

NextOut ==
    \/ \E ch \in OutChars : TypeActual(ch)
    \/ \E ch \in ExpChars : TypeExpected(ch)
    \/ Compare

InitOut ==
    /\ stored = <<>>
    /\ Fresh

SpecOut == InitOut /\ [][NextOut]_vars

(***************************************************************************)
(* normalizeOutput on its own: one text is typed and normalized.           *)
(***************************************************************************)
\* the characters of a text: those of an output and a form feed, which trim
\* strips and the blank-collapsing step leaves alone
TextChars == OutChars \cup {"\f"}

TypeText(ch) ==
    /\ compared = Undefined
    /\ Len(actual) < MaxTextLen
    /\ actual' = Append(actual, ch)
    /\ UNCHANGED <<expected, compared, appVars, simVars, structVars>>

NextNorm ==
    \/ \E ch \in TextChars : TypeText(ch)
    \/ Compare

SpecNorm == InitOut /\ [][NextNorm]_vars

(***************************************************************************)
(* The similarity scorer on its own: two token arrays are built token by   *)
(* token and scored.                                                       *)
(***************************************************************************)
Tok_int == <<"i","n","t">>
Tok_INT == <<"I","N","T">>
Tok_x == <<"x">>
Tok_semi == <<";">>

\* the tokens an array is built of
TokenAlphabet == {Tok_int, Tok_INT, Tok_x, Tok_semi}

PushTokenA(t) ==
    /\ similarity = Undefined
    /\ Len(tokensA) < MaxTokens
    /\ tokensA' = Append(tokensA, t)
    /\ UNCHANGED <<tokensB, similarity, appVars, outVars, structVars>>

PushTokenB(t) ==
    /\ similarity = Undefined
    /\ Len(tokensB) < MaxTokens
    /\ tokensB' = Append(tokensB, t)
    /\ UNCHANGED <<tokensA, similarity, appVars, outVars, structVars>>

ScoreTokens ==
    /\ similarity = Undefined
    /\ similarity' = Some(tokenSimilarity(tokensA, tokensB))
    /\ UNCHANGED <<tokensA, tokensB, appVars, outVars, structVars>>

NextSim ==
    \/ \E t \in TokenAlphabet : PushTokenA(t)
    \/ \E t \in TokenAlphabet : PushTokenB(t)
    \/ ScoreTokens

SpecSim == InitOut /\ [][NextSim]_vars

(***************************************************************************)
(* The structural checker on its own: a reference is picked, a submission  *)
(* is typed fragment by fragment, and checkStructure is applied.           *)
(***************************************************************************)
\* }
Frag_Close ==
    <<"}">>
\* x%3;
Frag_Percent ==
    <<"x","%","3",";">>

\* the fragments of a submission given to the checker
StructFragments == CodeFragments \cup {Frag_Close, Frag_Percent}

\* printf("a");
Ref_Printf ==
    <<"p","r","i","n","t","f","(","\"","a","\"",")",";">>
\* switch (x){}
Ref_Switch ==
    <<"s","w","i","t","c","h"," ","(","x",")","{","}">>
\* x % 2;
Ref_Mod ==
    <<"x"," ","%"," ","2",";">>
\* fgets(b,9,stdin);
Ref_Fgets ==
    <<"f","g","e","t","s","(","b",",","9",",","s","t","d","i","n",")",";">>

\* a part of a reference, present or not
Part(present, text) == IF present THEN text ELSE <<>>

\* the references: every choice of the four parts
RefTexts ==
    {Part(io, Ref_Printf) \o Part(sw, Ref_Switch) \o Part(md, Ref_Mod)
        \o Part(fg, Ref_Fgets) : io \in BOOLEAN, sw \in BOOLEAN,
                                 md \in BOOLEAN, fg \in BOOLEAN}

\* the texts made of at most n of the fragments
RECURSIVE TextsOf(_, _)
TextsOf(fragments, n) ==
    IF n = 0 THEN {<<>>}
    ELSE LET shorter == TextsOf(fragments, n - 1)
         IN  shorter \cup {s \o f : s \in shorter, f \in fragments}

\* the submissions given to the checker
StructTexts == TextsOf(StructFragments, MaxCodeLen)

PickReference ==
    /\ structure = Undefined
    /\ refText = <<>>
    /\ \E r \in RefTexts \ {<<>>} : refText' = r
    /\ UNCHANGED <<userText, structure, appVars, outVars, simVars>>

TypeSubmission ==
    /\ structure = Undefined
    /\ userText = <<>>
    /\ \E u \in StructTexts \ {<<>>} : userText' = u
    /\ UNCHANGED <<refText, structure, appVars, outVars, simVars>>

CheckStructure ==
    /\ structure = Undefined
    /\ structure' = Some(checkStructure(userText, refText))
    /\ UNCHANGED <<userText, refText, appVars, outVars, simVars>>

NextStruct ==
    \/ PickReference
    \/ TypeSubmission
    \/ CheckStructure

SpecStruct == InitOut /\ [][NextStruct]_vars

(***************************************************************************)
(* Shorthands for the properties.                                          *)
(***************************************************************************)
\* a grading call has returned and its result is shown
Done == pc = "done" /\ validation # Undefined

Shown == validation[1]

Matched == entry[1]

HasMistake(m) == \E i \in 1..Len(Shown.mistakes) : Shown.mistakes[i] = m

\* the similarity and the structural findings compareToReference computed
\* for the result shown
SimOfCall == Shown.computed[1].tokenSim
StructureOfCall == Shown.computed[1].structureCheck

\* the request to the runner threw and runCCode's catch clause answered
RunnerThrew ==
    /\ runResult # Undefined
    /\ runResult[1].error # Undefined
    /\ runResult[1].error[1] \in
          {Plain("Failed to fetch"), Plain("Failed to run code")}

(***************************************************************************)
(* C1. Output gating: a result whose outputMatched is false has score 0,  *)
(* and the grading call that produced it never called compareToReference, *)
(* so neither the structural check nor the token similarity was computed. *)
(***************************************************************************)
C1_OutputGating ==
    (Done /\ Shown.outputMatched = Some(FALSE))
        => /\ Shown.score = 0
           /\ calls.compare = 0
           /\ calls.structure = 0

\* the reference solution itself is submitted and prints the wrong answer
C1_Witness ==
    /\ Done
    /\ Shown.outputMatched = Some(FALSE)
    /\ runResult[1].success
    /\ code = Matched.solution
    /\ Shown.score = 0

(***************************************************************************)
(* C2. An execution that reported success = false ends the grading call   *)
(* with score 0 and without scoring; outputMatched = true is reached only *)
(* after an execution that reported success = true.  The code breaks it:  *)
(* a failure that carries no stderr is treated as a run that printed      *)
(* nothing.                                                                *)
(***************************************************************************)
C2_ExecutionFailureIsTerminal ==
    (Done /\ runResult # Undefined /\ ~runResult[1].success)
        => /\ Shown.score = 0
           /\ calls.compare = 0
           /\ Shown.outputMatched # Some(TRUE)

(***************************************************************************)
(* C3, as claimed. A submission without non-whitespace content is handled *)
(* first: no execution call is dispatched and nothing is compared or      *)
(* scored.                                                                 *)
(***************************************************************************)
C3_EmptyHandledFirst ==
    (pc # "idle" /\ Trim(code) = <<>>)
        => /\ calls.run = 0
           /\ calls.compare = 0

(***************************************************************************)
(* C3, amended. A submission that is empty once comments are removed and  *)
(* whitespace is collapsed gets score 0 and is never scored for structure *)
(* or similarity; the emptiness is found only inside compareToReference,  *)
(* whose result is then "No code provided", after the lookup and after    *)
(* the execution call of a record with an expected output.                *)
(***************************************************************************)
C3_EmptyScoresZero ==
    (Done /\ normalizeCode(code) = <<>>)
        => /\ Shown.score = 0
           /\ calls.structure = 0
           /\ calls.compare = 1 => Shown.mistakes = <<Plain("No code provided")>>
           /\ (thrown = Undefined /\ entry # Undefined
               /\ Matched.expectedOutput \notin {Undefined, Some(<<>>)})
                 => calls.run = 1

\* an empty submission was executed, its output matched, and only then was
\* it found to be empty
C3_Witness ==
    /\ Done
    /\ Trim(code) = <<>>
    /\ calls.run = 1
    /\ calls.compare = 1
    /\ Shown.outputMatched = Some(TRUE)
    /\ Shown.score = 0

C5_ScoreInRange ==
    validation # Undefined => Shown.score \in 0..100

\* a scored submission whose penalties exceed the 40 points of the
\* structural term
C5_Witness ==
    /\ Done
    /\ calls.structure = 1
    /\ StructureOfCall.penalties > 40
    /\ Shown.score \in 1..59

(***************************************************************************)
(* C6. Whatever path a grading call takes, the mistakes list it returns   *)
(* is not empty; when the structural check finds nothing,                 *)
(* compareToReference puts in one sentinel entry.                         *)
(***************************************************************************)
Sentinels ==
    {Plain("Solution structure differs significantly from expected approach"),
     Plain("No major issues - good match!"),
     Plain("Review your implementation for minor improvements")}

C6_MistakesNonEmpty ==
    validation # Undefined
        => /\ Len(Shown.mistakes) > 0
           /\ (calls.structure = 1 /\ StructureOfCall.mistakes = <<>>)
                 => /\ Len(Shown.mistakes) = 1
                    /\ Shown.mistakes[1] \in Sentinels

\* no structural finding, a similarity of at least 0.3 and a score below 90:
\* only the final fallback fills the list
C6_Witness ==
    /\ Done
    /\ calls.structure = 1
    /\ StructureOfCall.mistakes = <<>>
    /\ Shown.score < 90
    /\ 10 * SimOfCall.num >= 3 * SimOfCall.den
    /\ Shown.mistakes = <<Plain("Review your implementation for minor improvements")>>

(***************************************************************************)
(* C7. A grading call calls runCCode at most once: once when the matched  *)
(* record has a non-empty expected output, never when no record matches   *)
(* or the record has none; a result with outputMatched or userOutput is   *)
(* produced only after that call has resolved.                            *)
(***************************************************************************)
C7_OneExecutionCall ==
    /\ calls.run \in {0, 1}
    /\ (pc # "idle" /\ thrown = Undefined)
          => (calls.run = 1 <=>
                /\ entry # Undefined
                /\ Matched.expectedOutput \notin {Undefined, Some(<<>>)})
    /\ (validation # Undefined
        /\ (Shown.outputMatched # Undefined \/ Shown.userOutput # Undefined))
          => calls.run = 1 /\ runResult # Undefined /\ pc = "done"
    /\ pc = "awaiting" => validation = Undefined /\ runResult = Undefined

\* a record whose expected output is the empty string was graded without
\* an execution
C7_Witness ==
    /\ Done
    /\ entry # Undefined
    /\ Matched.expectedOutput = Some(<<>>)
    /\ calls.run = 0
    /\ calls.compare = 1

SelfConsistent(ref) ==
    /\ HasCall(ref, W_main)
    /\ (HasCall(ref, W_printf) \/ HasCall(ref, W_scanf) \/ HasCall(ref, W_fgets))
          => HasStdioInclude(ref)
    /\ CountChar(ref, "{") = CountChar(ref, "}")
    /\ ~(HasCall(ref, W_fgets) /\ HasCall(ref, W_gets))

Blank == {" ", "\t"}

\* the lines of a text whose line breaks are \r\n, \r or \n
RECURSIVE BreakLines(_, _)
BreakLines(s, line) ==
    IF s = <<>> THEN <<line>>
    ELSE IF StartsAt(s, 1, <<"\r", "\n">>)
    THEN <<line>> \o BreakLines(Drop(s, 2), <<>>)
    ELSE IF s[1] \in {"\r", "\n"}
    THEN <<line>> \o BreakLines(Tail(s), <<>>)
    ELSE BreakLines(Tail(s), Append(line, s[1]))

\* the words of a line: its longest runs of characters other than blanks
RECURSIVE Words(_, _)
Words(line, word) ==
    IF line = <<>> THEN (IF word = <<>> THEN <<>> ELSE <<word>>)
    ELSE IF line[1] \in Blank
    THEN (IF word = <<>> THEN <<>> ELSE <<word>>) \o Words(Tail(line), <<>>)
    ELSE Words(Tail(line), Append(word, line[1]))

\* a line as its words and, when leading blanks count, whether it is indented
LineShape(line, leadCounts) ==
    [words |-> Words(line, <<>>),
     indented |-> leadCounts /\ line # <<>> /\ line[1] \in Blank
                  /\ Words(line, <<>>) # <<>>]

RECURSIVE DropEmptyHead(_)
DropEmptyHead(ls) ==
    IF ls # <<>> /\ ls[1].words = <<>> THEN DropEmptyHead(Tail(ls)) ELSE ls

RECURSIVE DropEmptyEnd(_)
DropEmptyEnd(ls) ==
    IF ls # <<>> /\ ls[Len(ls)].words = <<>>
    THEN DropEmptyEnd(SubSeq(ls, 1, Len(ls) - 1)) ELSE ls

\* The shape of a text: the shapes of its lines, without the empty lines at
\* its start and at its end and without the indentation of its first line,
\* which trimming the whole text removes.
Shape(s, leadCounts) ==
    LET lines == BreakLines(s, <<>>)
        shapes == [i \in 1..Len(lines) |-> LineShape(lines[i], leadCounts)]
        kept == DropEmptyEnd(DropEmptyHead(shapes))
    IN  IF kept = <<>> THEN kept ELSE [kept EXCEPT ![1].indented = FALSE]

(***************************************************************************)
(* C9, as claimed. outputsMatch is true exactly when the outputs are      *)
(* equal once line endings are unified, runs of blanks inside a line are  *)
(* one space, the trailing whitespace of each line is removed and the     *)
(* whole text is trimmed; a difference in the leading whitespace of an    *)
(* interior line is a mismatch.                                            *)
(***************************************************************************)
C9_MatchKeepsIndentation ==
    compared # Undefined
        => (compared[1].matched <=> Shape(actual, TRUE) = Shape(expected, TRUE))

(***************************************************************************)
(* C9, amended. outputsMatch is true exactly when the outputs are equal   *)
(* once line endings are unified, runs of blanks inside a line are one    *)
(* space, the leading and the trailing whitespace of each line are        *)
(* removed and the whole text is trimmed: the outputs match exactly when  *)
(* they have the same words on the same lines, the empty lines at either  *)
(* end aside.  The leading whitespace of a line never makes a mismatch.   *)
(***************************************************************************)
C9_MatchIsSameWords ==
    compared # Undefined
        => (compared[1].matched <=> Shape(actual, FALSE) = Shape(expected, FALSE))

\* two outputs that differ in the indentation of a line were found to match
C9_Witness ==
    /\ compared # Undefined
    /\ compared[1].matched
    /\ Shape(actual, TRUE) # Shape(expected, TRUE)

(***************************************************************************)
(* C10. normalizeOutput is idempotent: normalizing a normalized text      *)
(* changes nothing.                                                        *)
(***************************************************************************)
C10_NormalizeIdempotent ==
    compared # Undefined => compared[1].again = compared[1].normalized

\* a text with a carriage return and a tab that normalization changed into
\* a text of two lines
C10_Witness ==
    /\ compared # Undefined
    /\ \E i \in 1..Len(actual) : actual[i] = "\r"
    /\ \E i \in 1..Len(actual) : actual[i] = "\t"
    /\ compared[1].normalized # actual
    /\ Len(SplitLines(compared[1].normalized)) = 2

(***************************************************************************)
(* C11. tokenSimilarity(a, b) is the Jaccard index of the sets of the      *)
(* lower-cased tokens of a and of b, the size of the intersection over the *)
(* size of the union: it lies between 0 and 1, is the same when an array   *)
(* is reversed or holds its tokens twice, and is 1 for an array scored     *)
(* against itself.  Two empty arrays score 1, and an empty array against   *)
(* one that is not scores 0.                                               *)
(***************************************************************************)
Reverse(tokens) == [i \in 1..Len(tokens) |-> tokens[Len(tokens) + 1 - i]]

\* two quotients are the same number
SameQuotient(q, r) == q.num * r.den = r.num * q.den

C11_SimilarityIsJaccard ==
    similarity # Undefined
        => LET sim == similarity[1]
               setA == LowerSet(tokensA)
               setB == LowerSet(tokensB)
           IN  /\ sim.den > 0
               /\ 0 <= sim.num
               /\ sim.num <= sim.den
               /\ (tokensA # <<>> /\ tokensB # <<>>)
                     => sim.num * Cardinality(setA \cup setB)
                           = sim.den * Cardinality(setA \cap setB)
               /\ (tokensA = <<>> /\ tokensB = <<>>) => sim.num = sim.den
               /\ ((tokensA = <<>>) # (tokensB = <<>>)) => sim.num = 0
               /\ (tokensA = tokensB) => sim.num = sim.den
               /\ SameQuotient(tokenSimilarity(Reverse(tokensA), tokensB), sim)
               /\ SameQuotient(tokenSimilarity(tokensA, Reverse(tokensB)), sim)
               /\ SameQuotient(tokenSimilarity(tokensA \o tokensA, tokensB), sim)
               /\ SameQuotient(tokenSimilarity(tokensA, tokensB \o tokensB), sim)

\* INT x x against x int ; : the sets {int, x} and {x, int, ;} share two of
\* three tokens
C11_Witness ==
    /\ similarity # Undefined
    /\ tokensA = <<Tok_INT, Tok_x, Tok_x>>
    /\ tokensB = <<Tok_x, Tok_int, Tok_semi>>
    /\ similarity[1].num = 2
    /\ similarity[1].den = 3

(***************************************************************************)
(* C12. The matchedProblem of a result is null exactly when no record was  *)
(* matched.  When the lookup finds no record whose problem text is the     *)
(* text given, the result has score 0, matchedProblem null and the mistake *)
(* that tells the user to paste the exact problem text.  On every path     *)
(* after a record matched (no output check, execution failed, wrong        *)
(* answer, output matched, an empty submission included) matchedProblem is *)
(* the problem text of the matched record.  A call whose lookup threw      *)
(* matched no record and shows null as well.                               *)
(***************************************************************************)
C12_MatchedProblemNullIffNoMatch ==
    Done
        => /\ (Shown.matchedProblem = Undefined) <=> (entry = Undefined)
           /\ (entry # Undefined)
                 => Shown.matchedProblem = Some(Matched.problem)
           /\ (thrown = Undefined /\ entry = Undefined)
                 => /\ Shown.score = 0
                    /\ HasMistake(Plain("Paste the exact problem text from the list."))
                    /\ calls = NoCalls

\* a submission that is only a comment, graded against a record without an
\* expected output: the result of the early return of compareToReference
\* carries the record's problem text
C12_Witness ==
    /\ Done
    /\ entry # Undefined
    /\ code # <<>>
    /\ normalizeCode(code) = <<>>
    /\ Matched.expectedOutput = Undefined
    /\ HasMistake(Plain("No code provided"))
    /\ Shown.matchedProblem = Some("Even or odd")

(***************************************************************************)
(* C13. A result whose outputMatched is true has the score and the         *)
(* mistakes that the same submission gets against the same reference       *)
(* solution on the path without an output check; the two results differ    *)
(* only in the summary, in userOutput and expectedOutput, and in           *)
(* outputMatched.                                                          *)
(***************************************************************************)
\* what the submission of this call gets from a record that has the same
\* problem text and solution and no expected output
WithoutOutputCheck ==
    NoOutputCheckResult([Matched EXCEPT !.expectedOutput = Undefined], code)

C13_OutputMatchedKeepsScoreAndIssues ==
    (Done /\ Shown.outputMatched = Some(TRUE))
        => /\ Shown.score = WithoutOutputCheck.score
           /\ Shown.mistakes = WithoutOutputCheck.mistakes
           /\ Shown.matchedProblem = WithoutOutputCheck.matchedProblem
           /\ Shown.summary = CorrectSummary(WithoutOutputCheck.score)
           /\ Shown.summary # WithoutOutputCheck.summary
           /\ Shown.userOutput = Some(runResult[1].stdout)
           /\ Shown.expectedOutput = Matched.expectedOutput
           /\ WithoutOutputCheck.userOutput = Undefined
           /\ WithoutOutputCheck.expectedOutput = Undefined
           /\ WithoutOutputCheck.outputMatched = Undefined

\* the run succeeded and its output matched; the submission lost points to
\* a structural rule and kept some
C13_Witness ==
    /\ Done
    /\ Shown.outputMatched = Some(TRUE)
    /\ runResult[1].success
    /\ calls.structure = 1
    /\ StructureOfCall.penalties > 0
    /\ Shown.score > 0
    /\ Shown.score < 100

(***************************************************************************)
(* C14. The rules of checkStructure are independent and additive: the      *)
(* penalties returned are the sum of the weights of the violated rules     *)
(* (no main 25, no stdio include 15, unbalanced braces 20, no switch 15,   *)
(* no modulo 10, gets for fgets 10), 95 at most and not capped below that; *)
(* every violated rule adds one mistake, and the mistakes come in the      *)
(* order the rules are written in.  A submission with unequal counts of    *)
(* opening and closing braces gets the brace mistake and at least 20       *)
(* points of penalty, whatever the reference.                              *)
(***************************************************************************)
\* the six rules as the specification lists them, decided for the texts
\* given to the checker
RuleTable ==
    <<[violated |-> ~HasCall(userText, W_main),
       text |-> "Missing main() function", weight |-> 25],
      [violated |-> /\ \/ HasCall(refText, W_printf)
                       \/ HasCall(refText, W_scanf)
                       \/ HasCall(refText, W_fgets)
                    /\ ~HasStdioInclude(userText),
       text |-> "Missing #include <stdio.h>", weight |-> 15],
      [violated |-> CountChar(userText, "{") # CountChar(userText, "}"),
       text |-> "Unbalanced braces", weight |-> 20],
      [violated |-> HasCall(refText, W_switch) /\ ~HasCall(userText, W_switch),
       text |-> "Problem requires switch statement", weight |-> 15],
      [violated |-> HasModTwo(refText) /\ ~HasPercent(userText),
       text |-> "Use modulo operator (%) for even/odd check", weight |-> 10],
      [violated |-> HasCall(refText, W_fgets) /\ HasCall(userText, W_gets),
       text |-> "Use fgets() instead of gets()", weight |-> 10]>>

IsViolated(rule) == rule.violated

ViolatedRules == SelectSeq(RuleTable, IsViolated)

RECURSIVE SumOfWeights(_)
SumOfWeights(rules) ==
    IF rules = <<>> THEN 0 ELSE Head(rules).weight + SumOfWeights(Tail(rules))

C14_RulesAreAdditive ==
    structure # Undefined
        => LET found == structure[1]
           IN  /\ found.penalties = SumOfWeights(ViolatedRules)
               /\ found.penalties <= 95
               /\ found.mistakes
                     = [i \in 1..Len(ViolatedRules) |-> Plain(ViolatedRules[i].text)]
               /\ (CountChar(userText, "{") # CountChar(userText, "}"))
                     => /\ \E i \in 1..Len(found.mistakes) :
                              found.mistakes[i] = Plain("Unbalanced braces")
                        /\ found.penalties >= 20

\* gets(b);{ against a reference with printf, switch, % 2 and fgets: all
\* six rules are violated and the penalties reach 95
C14_Witness ==
    /\ structure # Undefined
    /\ userText = Frag_Gets \o Frag_Open
    /\ refText = Ref_Printf \o Ref_Switch \o Ref_Mod \o Ref_Fgets
    /\ structure[1].penalties = 95
    /\ Len(structure[1].mistakes) = 6

(***************************************************************************)
(* C15. On the paths that score a submission (no output check, output      *)
(* matched), every submission with non-whitespace content gets             *)
(* score = min(100, round(tokenSimilarity * 60) + max(0, 40 - penalties)). *)
(***************************************************************************)
\* the score the formula gives the submission of this call
FormulaScore ==
    LET sim == tokenSimilarity(getTokens(code), getTokens(Matched.solution))
        penalties == checkStructure(code, Matched.solution).penalties
        rounded == CHOOSE r \in 0..60 :
                      /\ 2 * sim.den * r <= 120 * sim.num + sim.den
                      /\ 120 * sim.num + sim.den < 2 * sim.den * (r + 1)
    IN  Min(100, rounded + Max(0, 40 - penalties))

\* the call took a path that ends in compareToReference
OnScoringPath ==
    /\ Done
    /\ entry # Undefined
    /\ Shown.outputMatched # Some(FALSE)

C15_ScoreFormulaForAnyText ==
    (OnScoringPath /\ Trim(code) # <<>>) => Shown.score = FormulaScore

(***************************************************************************)
(* C15, amended. On the paths that score a submission, a submission that   *)
(* is not empty once its comments are removed and its whitespace is        *)
(* collapsed gets                                                          *)
(* score = min(100, round(tokenSimilarity * 60) + max(0, 40 - penalties)), *)
(* a half rounded up: the structural term is never negative, a submission  *)
(* without a structural finding scores at least 40, and one whose          *)
(* penalties are 40 or more scores at most 60.  A submission made of       *)
(* comments and whitespace only scores 0, whatever the formula would give. *)
(***************************************************************************)
C15_ScoreFormula ==
    OnScoringPath
        => IF normalizeCode(code) = <<>>
           THEN Shown.score = 0 /\ Shown.computed = Undefined
           ELSE /\ Shown.computed # Undefined
                /\ LET sim == SimOfCall
                       penalties == StructureOfCall.penalties
                       term == IF penalties >= 40 THEN 0 ELSE 40 - penalties
                       rounded == Shown.score - term
                   IN  /\ rounded \in 0..60
                       /\ 2 * sim.den * rounded <= 120 * sim.num + sim.den
                       /\ 120 * sim.num + sim.den < 2 * sim.den * (rounded + 1)
                       /\ term >= 0
                       /\ Shown.score <= 100
                       /\ (StructureOfCall.mistakes = <<>>) => Shown.score >= 40
                       /\ (penalties >= 40) => Shown.score <= 60

\* more than half of the tokens are shared, and penalties of 40 or more
\* leave only the similarity term
C15_Witness ==
    /\ OnScoringPath
    /\ Shown.computed # Undefined
    /\ StructureOfCall.penalties >= 40
    /\ 2 * SimOfCall.num > SimOfCall.den
    /\ Shown.score > 30
    /\ Shown.score <= 60

====
